---- MODULE Spec2Model ----
(***************************************************************************)
(* Document Portal: session-scoped RAG pipeline.                           *)
(*                                                                         *)
(* The model covers                                                        *)
(*   - the persisted FAISS index locations (faiss_index/ and               *)
(*     faiss_index/<session>/) written by the two ingestors and read by    *)
(*     the /chat/query handler,                                            *)
(*   - the two conversational engines (single-document engine with the     *)
(*     process-wide _SESSION_STORE, multi-document LCEL engine with a      *)
(*     caller-supplied history),                                           *)
(*   - the structured extraction chain prompt | llm | OutputFixingParser   *)
(*     of the analyzer and the comparator.                                 *)
(*                                                                         *)
(* The generative backend and the embedder are capability interfaces:      *)
(* their outputs and failures are inputs drawn from small sets.            *)
(* Exceptions are modelled by the name of the class the code raises.       *)
(***************************************************************************)
EXTENDS Naturals, Sequences, FiniteSets, TLC

(***************************************************************************)
(* Bounds of the model                                                     *)
(***************************************************************************)
MaxTurns == 2
ChunksPerDoc == 2
MaxBackendCalls == 3
MaxClock == 2
MaxCreated == 3
MaxConcTurns == 3
MaxBuilds == 2
MaxK == 2
MaxIndexChunks == 7
MaxPages == 3
MaxTextLen == 4
MaxChunkSize == 3

(***************************************************************************)
(* Input domains                                                           *)
(***************************************************************************)
Sessions == {"s1", "s2"}
NoSession == "none"

Root == "faiss_index"
Paths == {Root} \cup Sessions

Uploads ==
    { [stem |-> "a", ext |-> ".pdf"],
      [stem |-> "b", ext |-> ".txt"],
      [stem |-> "x", ext |-> ".exe"],
      [stem |-> "e", ext |-> ".txt"] }

RootPdfs ==
    { f \in Uploads : f.ext = ".pdf" } \cup
    { [stem |-> "c", ext |-> ".pdf"], [stem |-> "e", ext |-> ".pdf"] }

\* Files whose loader yields documents without text (an empty text file, a PDF
\* of scanned pages): the splitter makes no chunk of them.
EmptyStems == {"e"}

Questions == {"q1", "q2"}
RewriteOutputs == {"", "rw"}
AnswerOutputs == {"", "ans"}
Faults == {"none", "rewrite", "retrieve", "answer"}

SUPPORTED_FILE_TYPES == {".pdf", ".docx", ".txt", ".md"}

VARIABLES
    faiss,        \* Paths -> directory entry: the on-disk index locations
    store,        \* _SESSION_STORE: session id -> chat history
    turnLog,      \* per session, the completed turns in arrival order
    lastCall,     \* the most recent call (ingestion, /chat/query, invoke) and its outcome
    extractRes,   \* the most recent analyze_document / compare_documents call
    cmp,          \* data/document_compare: the root, the session folder, the last calls
    sid,          \* the clock and the sessions created with a generated id
    conc,         \* _SESSION_STORE under concurrent turns: the threads and the objects
    disk,         \* one index path under a concurrent rebuild and load: the two files
    eng,          \* one chat engine object of each kind: the retrievers it holds
    fn            \* the most recent retrieval, text extraction or split and its result

coreVars == <<faiss, store, turnLog, lastCall, extractRes>>
auxVars == <<cmp, sid, conc, disk, eng, fn>>
vars == <<faiss, store, turnLog, lastCall, extractRes, cmp, sid, conc, disk, eng, fn>>

(***************************************************************************)
(* Directory entries                                                       *)
(***************************************************************************)
Absent == [kind |-> "absent", owner |-> NoSession, chunks |-> {}]
EmptyDir == [kind |-> "dir", owner |-> NoSession, chunks |-> {}]
Index(s, c) == [kind |-> "index", owner |-> s, chunks |-> c]

\* Path(...).mkdir(parents=True, exist_ok=True)
Mkdir(e) == IF e.kind = "absent" THEN EmptyDir ELSE e

\* os.path.isdir
IsDir(e) == e.kind # "absent"

\* splitter.split_documents: every loaded document with text contributes its
\* chunks, a document without text contributes none
ChunksOf(docs) ==
    { [source |-> d.stem, seq |-> i] :
          d \in { f \in docs : f.stem \notin EmptyStems }, i \in 1..ChunksPerDoc }

\* A builder that accepts an empty list of chunks and makes an empty index
FromDocumentsLenient(chunks, embedOk) ==
    IF ~embedOk THEN "embedder" ELSE "built"

\* FAISS.from_documents(documents=chunks, embedding=embeddings): embeds the
\* texts and sizes the index by the first vector, embeddings[0], which raises
\* IndexError when there is no chunk.
FromDocuments(chunks, embedOk) ==
    IF ~embedOk THEN "embedder"
    ELSE IF chunks = {} THEN "IndexError"
    ELSE "built"

\* A merging save: what vectorstore.save_local would do if it added to the
\* index already on disk.
SaveLocalMerge(old, s, chunks) == Index(s, old.chunks \cup chunks)

\* vectorstore.save_local(path): the freshly built store replaces the files
SaveLocal(old, s, chunks) == Index(s, chunks)

(***************************************************************************)
(* The record of the most recent call                                      *)
(***************************************************************************)
NoCall == [op |-> "none"]

NoTurn ==
    [engine |-> "none", session |-> NoSession, question |-> "", history |-> <<>>,
     earlier |-> <<>>, status |-> "none", rewriteCalls |-> 0, rewriteOut |-> "<none>",
     retrieved |-> FALSE, standalone |-> "", response |-> "", result |-> ""]

\* given: the files of the request; written: those the call wrote into the
\* session's upload directory; skipped: those left out for their type;
\* cause: what raised inside the call ("none" when it returned)
IngestRecord(engine, s, path, given, written, skipped, status, cause, built, replaced) ==
    [op |-> "ingest", engine |-> engine, session |-> s, path |-> path,
     given |-> given, written |-> written, skipped |-> skipped, status |-> status,
     cause |-> cause, built |-> built, replaced |-> replaced]

(***************************************************************************)
(* Ingestion                                                               *)
(***************************************************************************)
\* DocumentIngestor(session_id=s).ingest_files(files)
\*   __init__ creates faiss_index/ and faiss_index/<s>/ ; ingest_files writes
\*   each file to session_temp_dir / name and then tests its extension; it keeps
\*   the files of a supported type (a file of another type is logged and left out),
\*   fails when none is left, and _create_retriever persists the index built
\*   from this call's documents to faiss_index/<s>/.  Every exception leaves
\*   ingest_files as DocumentPortalException("Error in ingest_files").
MultiIngest(s, files, embedOk) ==
    LET dirs == [faiss EXCEPT ![Root] = Mkdir(@), ![s] = Mkdir(@)]
        written == files
        docs == { f \in files : f.ext \in SUPPORTED_FILE_TYPES }
        skipped == files \ docs
        chunks == ChunksOf(docs)
        built == FromDocuments(chunks, embedOk)
    IN  /\ IF docs = {}
           THEN /\ faiss' = dirs
                /\ lastCall' = IngestRecord("multi", s, s, files, written, skipped,
                                            "DocumentPortalException",
                                            "No valid documents found for ingestion",
                                            {}, dirs[s])
           ELSE IF built # "built"
           THEN /\ faiss' = dirs
                /\ lastCall' = IngestRecord("multi", s, s, files, written, skipped,
                                            "DocumentPortalException", built,
                                            {}, dirs[s])
           ELSE /\ faiss' = [dirs EXCEPT ![s] = SaveLocal(@, s, chunks)]
                /\ lastCall' = IngestRecord("multi", s, s, files, written, skipped, "ok",
                                            "none", chunks, dirs[s])
        /\ UNCHANGED <<store, turnLog, extractRes, auxVars>>

\* SingleDocIngestor().ingest_files(pdf_filenames)
\*   __init__ creates faiss_index/ ; ingest_files makes its own session id, loads
\*   the named PDFs of the data root, fails when nothing was loaded, and
\*   _create_retriever persists the index to self.faiss_dir, i.e. faiss_index/.
SingleIngest(s, files, embedOk) ==
    LET dirs == [faiss EXCEPT ![Root] = Mkdir(@)]
        chunks == ChunksOf(files)
        built == FromDocuments(chunks, embedOk)
    IN  /\ IF files = {}
           THEN /\ faiss' = dirs
                /\ lastCall' = IngestRecord("single", s, Root, files, {}, {},
                                            "DocumentPortalException",
                                            "No documents loaded from provided PDFs",
                                            {}, dirs[Root])
           ELSE IF built # "built"
           THEN /\ faiss' = dirs
                /\ lastCall' = IngestRecord("single", s, Root, files, {}, {},
                                            "DocumentPortalException", built,
                                            {}, dirs[Root])
           ELSE /\ faiss' = [dirs EXCEPT ![Root] = SaveLocal(@, s, chunks)]
                /\ lastCall' = IngestRecord("single", s, Root, files, {}, {}, "ok",
                                            "none", chunks, dirs[Root])
        /\ UNCHANGED <<store, turnLog, extractRes, auxVars>>

(***************************************************************************)
(* Conversational engines                                                  *)
(*                                                                         *)
(* A history is a sequence of turns <<question, answer>>.  One invocation  *)
(* takes the backend's reply to the rewrite prompt (rw), its reply to the  *)
(* answer prompt (ans) and the step at which a backend call fails (fault). *)
(***************************************************************************)
NoReply == "<none>"

\* rewriteOut is the backend's reply to the rewrite prompt (NoReply when the
\* rewriter was not run or raised), standalone the query given to the retriever.
ChainResult(status, rewriteCalls, rewriteOut, retrieved, standalone, response) ==
    [status |-> status, rewriteCalls |-> rewriteCalls, rewriteOut |-> rewriteOut,
     retrieved |-> retrieved, standalone |-> standalone, response |-> response]

\* The rest of either chain once the retriever's query is known: retriever,
\* then the answer prompt, llm and StrOutputParser.
RetrieveAndAnswer(calls, rewriteOut, standalone, fault, ans) ==
    IF fault = "retrieve"
    THEN ChainResult("error", calls, rewriteOut, FALSE, standalone, "")
    ELSE IF fault = "answer"
    THEN ChainResult("error", calls, rewriteOut, TRUE, standalone, "")
    ELSE ChainResult("ok", calls, rewriteOut, TRUE, standalone, ans)

\* multi_document_chat ConversationalRAG._build_lcel_chain:
\*   question_rewriter = {input, chat_history} | contextualize_prompt | llm | StrOutputParser
\*   retrieve_docs = question_rewriter | retriever | _format_docs
\* The rewriter is invoked whatever the history; its output is the retriever's query.
MultiChain(q, hist, rw, fault, ans) ==
    IF fault = "rewrite" THEN ChainResult("error", 1, NoReply, FALSE, NoReply, "")
    ELSE RetrieveAndAnswer(1, rw, rw, fault, ans)

\* single_document_chat ConversationalRAG.__init__:
\*   create_history_aware_retriever(llm, retriever, prompt) is a branch: with no
\*   chat_history the input goes to the retriever as it is, otherwise
\*   prompt | llm | StrOutputParser | retriever.
SingleChain(q, hist, rw, fault, ans) ==
    IF hist = <<>> THEN RetrieveAndAnswer(0, NoReply, q, fault, ans)
    ELSE IF fault = "rewrite" THEN ChainResult("error", 1, NoReply, FALSE, NoReply, "")
    ELSE RetrieveAndAnswer(1, rw, rw, fault, ans)

\* multi_document_chat ConversationalRAG.invoke: if not response: return "No Answer"
MultiReturn(response) == IF response = "" THEN "No Answer" ELSE response

\* single_document_chat ConversationalRAG.invoke:
\*   answer = response.get("answer", "No Answer"); the key is always present, an
\*   empty answer is only logged, and answer is returned.
SingleReturn(response) == response

TurnRecord(engine, s, q, hist, earlier, r, result) ==
    [engine |-> engine, session |-> s, question |-> q, history |-> hist,
     earlier |-> earlier, status |-> r.status, rewriteCalls |-> r.rewriteCalls,
     rewriteOut |-> r.rewriteOut, retrieved |-> r.retrieved, standalone |-> r.standalone,
     response |-> r.response,
     result |-> IF r.status = "ok" THEN result ELSE "DocumentPortalException"]

\* _SESSION_STORE entries
NoHistory == [present |-> FALSE, messages |-> <<>>]

\* A lookup that hands every caller a new, empty history
GetSessionHistoryFresh(st, s) ==
    [st EXCEPT ![s] = [present |-> TRUE, messages |-> <<>>]]

\* A lookup that starts the history of a new key from the history of a key
\* already in the store
GetSessionHistoryShared(st, s) ==
    [st EXCEPT ![s] =
        IF @.present THEN @
        ELSE IF \E o \in DOMAIN st : st[o].present
        THEN st[CHOOSE o \in DOMAIN st : st[o].present]
        ELSE [present |-> TRUE, messages |-> <<>>]]

\* single_document_chat ConversationalRAG._get_session_history:
\*   if session_id not in _SESSION_STORE: _SESSION_STORE[session_id] = InMemoryChatMessageHistory()
GetSessionHistory(st, s) ==
    [st EXCEPT ![s] = IF @.present THEN @ ELSE [present |-> TRUE, messages |-> <<>>]]

\* A wrapper that records the turn whether or not the chain raised
ExitHistoryAlways(messages, q, r) == Append(messages, <<q, r.response>>)

\* RunnableWithMessageHistory, after the wrapped chain: the question and the
\* value under "answer" are appended when the chain has ended; a chain that
\* raised appends nothing
ExitHistory(messages, q, r) ==
    IF r.status = "ok" THEN Append(messages, <<q, r.response>>) ELSE messages

\* Histories a caller of the multi-document engine passes as chat_history
CallerHistories == { <<>>, << <<"q1", "ans">> >> }

RECURSIVE SumLen(_, _)
SumLen(log, S) ==
    IF S = {} THEN 0
    ELSE LET s == CHOOSE x \in S : TRUE IN Len(log[s]) + SumLen(log, S \ {s})

\* The number of completed turns over all sessions
TotalTurns == SumLen(turnLog, Sessions)

\* single_document_chat: ConversationalRAG(session_id=s, retriever).invoke(q)
\*   RunnableWithMessageHistory reads the history of s from _SESSION_STORE
\*   (creating it), runs the chain with it as chat_history and, when the chain
\*   ends without an exception, appends the question and the answer.
SingleInvoke(s, q, rw, fault, ans) ==
    LET st == GetSessionHistory(store, s)
        hist == st[s].messages
        r == SingleChain(q, hist, rw, fault, ans)
    IN  /\ TotalTurns < MaxTurns
        /\ store' = [st EXCEPT ![s].messages = ExitHistory(@, q, r)]
        /\ turnLog' = IF r.status = "ok"
                      THEN [turnLog EXCEPT ![s] = Append(@, <<q, SingleReturn(r.response)>>)]
                      ELSE turnLog
        /\ lastCall' = [op |-> "invoke",
                        turn |-> TurnRecord("single", s, q, hist, turnLog[s], r,
                                            SingleReturn(r.response))]
        /\ UNCHANGED <<faiss, extractRes, auxVars>>

\* multi_document_chat: ConversationalRAG(session_id=s, retriever).invoke(q, chat_history=hist)
\*   chat_history = chat_history or []; the engine keeps no history of its own.
MultiInvoke(s, q, hist, rw, fault, ans) ==
    LET r == MultiChain(q, hist, rw, fault, ans)
    IN  /\ lastCall' = [op |-> "invoke",
                        turn |-> TurnRecord("multi", s, q, hist, hist, r,
                                            MultiReturn(r.response))]
        /\ UNCHANGED <<faiss, store, turnLog, extractRes, auxVars>>

(***************************************************************************)
(* /chat/query                                                             *)
(***************************************************************************)
QueryRecord(s, use, path, e, outcome, error, cause, turn) ==
    [op |-> "chat_query", session |-> s, shared |-> ~use, path |-> path,
     dirExisted |-> IsDir(e), hadIndex |-> (e.kind = "index"),
     outcome |-> outcome, error |-> error, cause |-> cause,
     owner |-> IF turn.engine = "none" THEN NoSession ELSE e.owner,
     turn |-> turn]

\* A loader that hands back an empty retriever for a directory without index files.
LoadRetrieverLenient(e) ==
    IF ~IsDir(e) THEN "FileNotFoundError" ELSE "loaded"

\* ConversationalRAG.load_retriever_from_faiss(index_path):
\*   not os.path.isdir(index_path) raises FileNotFoundError; FAISS.load_local
\*   raises RuntimeError when the directory holds no index files.  Either is
\*   re-raised as DocumentPortalException("Failed to load retriever from FAISS").
LoadRetrieverFromFaiss(e) ==
    IF ~IsDir(e) THEN "FileNotFoundError"
    ELSE IF e.kind # "index" THEN "RuntimeError"
    ELSE "loaded"

\* os.path.join(FAISS_BASE, session_id) if use_session__dirs else FAISS_BASE
IndexDir(s, use) == IF use THEN s ELSE Root

\* single_document_chat: ConversationalRAG(session_id=s, retriever).load_retriever_from_faiss(p)
\*   returns a retriever over the index at p or raises; it reads the directory
\*   and touches neither the engine's retriever nor _SESSION_STORE.  The checks
\*   are those of the multi-document loader.
SingleLoadRetriever(s, p) ==
    /\ lastCall' = [op |-> "load", session |-> s, path |-> p,
                    outcome |-> LoadRetrieverFromFaiss(faiss[p])]
    /\ UNCHANGED <<faiss, store, turnLog, extractRes, auxVars>>

\* chat_query(question, session_id, use_session__dirs, k)
\*   every exception leaves the handler as HTTPException(500, detail=str(e));
\*   error names the exception raised inside the handler.
ChatQuery(s, use, q, rw, fault, ans) ==
    /\ s \in Sessions => TotalTurns < MaxTurns
    /\ IF use /\ s = NoSession
       THEN /\ lastCall' = QueryRecord(s, use, Root, Absent, "error", "ValueError",
                                       "session_id must be provided", NoTurn)
            /\ UNCHANGED turnLog
       ELSE LET e == faiss[IndexDir(s, use)]
                loaded == LoadRetrieverFromFaiss(e)
                r == MultiChain(q, <<>>, rw, fault, ans)
                turn == TurnRecord("api", s, q, <<>>,
                                   IF s \in Sessions THEN turnLog[s] ELSE <<>>,
                                   r, MultiReturn(r.response))
            IN  IF ~IsDir(e)
                THEN /\ lastCall' = QueryRecord(s, use, IndexDir(s, use), e, "error",
                                                "ValueError", "directory does not exist",
                                                NoTurn)
                     /\ UNCHANGED turnLog
                ELSE IF loaded # "loaded"
                THEN /\ lastCall' = QueryRecord(s, use, IndexDir(s, use), e, "error",
                                                "DocumentPortalException", loaded, NoTurn)
                     /\ UNCHANGED turnLog
                ELSE /\ lastCall' =
                            IF r.status = "ok"
                            THEN QueryRecord(s, use, IndexDir(s, use), e, "answered",
                                             "none", "none", turn)
                            ELSE QueryRecord(s, use, IndexDir(s, use), e, "error",
                                             "DocumentPortalException", "invoke", turn)
                     /\ turnLog' = IF r.status = "ok" /\ s \in Sessions
                                   THEN [turnLog EXCEPT ![s] =
                                             Append(@, <<q, MultiReturn(r.response)>>)]
                                   ELSE turnLog
    /\ UNCHANGED <<faiss, store, extractRes, auxVars>>

(***************************************************************************)
(* Structured extraction: prompt | llm | OutputFixingParser                *)
(*                                                                         *)
(* A backend reply is a text together with the JSON value it denotes, if   *)
(* any; a JSON value is described by its kind, the keys of the object (of  *)
(* every element, for an array) and whether the values have the declared   *)
(* types.  BackendDown stands for a backend call that raises.              *)
(***************************************************************************)
NoValue == [kind |-> "none", keys |-> {}, wellTyped |-> FALSE]

\* models.Metadata: the fields without a default
MetadataRequired ==
    {"Title", "Author", "DateCreated", "LastModified", "Publisher", "Language",
     "PageCount", "SetimentTone"}

\* models.ChangeFormat
ChangeRequired == {"page", "changes"}

BackendDown == [text |-> "<raises>", json |-> FALSE, value |-> NoValue]

RawOutputs ==
    { [text |-> "Sure, here is the result", json |-> FALSE, value |-> NoValue],
      [text |-> "{Title: unquoted", json |-> FALSE, value |-> NoValue],
      [text |-> "metadata", json |-> TRUE,
       value |-> [kind |-> "object", keys |-> MetadataRequired \cup {"Summary"},
                  wellTyped |-> TRUE]],
      [text |-> "metadata without Author", json |-> TRUE,
       value |-> [kind |-> "object", keys |-> {"Title", "Summary"}, wellTyped |-> TRUE]],
      [text |-> "changes", json |-> TRUE,
       value |-> [kind |-> "array", keys |-> ChangeRequired, wellTyped |-> TRUE]],
      [text |-> "changes without page", json |-> TRUE,
       value |-> [kind |-> "array", keys |-> {"changes"}, wellTyped |-> TRUE]] }

Replies == RawOutputs \cup {BackendDown}

\* Validation against models.Metadata
ConformsMetadata(v) ==
    v.kind = "object" /\ MetadataRequired \subseteq v.keys /\ v.wellTyped

\* Validation against models.SummaryResponse, a list of ChangeFormat
ConformsSummaryResponse(v) ==
    v.kind = "array" /\ ChangeRequired \subseteq v.keys /\ v.wellTyped

Conforms(op, v) ==
    IF op = "analyze" THEN ConformsMetadata(v) ELSE ConformsSummaryResponse(v)

MaxRetriesTwo == 1 + 1
MaxRetriesZero == 1 - 1

\* OutputFixingParser.from_llm(llm=self.llm, parser=self.parser): max_retries
\* keeps its default
MaxRetries == 1

\* JsonOutputParser(pydantic_object=...).parse: the text is parsed as JSON and
\* the JSON value is returned; pydantic_object only shapes the format
\* instructions.  A text that is not JSON raises OutputParserException.
Parses(op, c) == c.json

ExtractResult(status, error, calls, repairs, value, last) ==
    [status |-> status, error |-> error, calls |-> calls, repairs |-> repairs,
     value |-> value, lastRaw |-> last.text]

\* OutputFixingParser.parse(completion):
\*   while retries <= max_retries:
\*       try: return parser.parse(completion)
\*       except OutputParserException as e:
\*           if retries == max_retries: raise e
\*           retries += 1; completion = retry_chain.invoke(...)
\* rest holds the backend's replies to the retry chain, in order.
RECURSIVE FixingParse(_, _, _, _, _)
FixingParse(op, completion, retries, rest, calls) ==
    IF Parses(op, completion)
    THEN ExtractResult("parsed", "none", calls, retries, completion.value, completion)
    ELSE IF retries = MaxRetries \/ rest = <<>>
    THEN ExtractResult("raised", "OutputParserException", calls, retries, NoValue,
                       completion)
    ELSE IF Head(rest) = BackendDown
    THEN ExtractResult("raised", "BackendError", calls + 1, retries + 1, NoValue,
                       completion)
    ELSE FixingParse(op, Head(rest), retries + 1, Tail(rest), calls + 1)

\* chain.invoke: the prompt and the llm produce the first completion, the
\* fixing parser takes it from there.
RunChain(op, replies) ==
    IF Head(replies) = BackendDown
    THEN ExtractResult("raised", "BackendError", 1, 0, NoValue, BackendDown)
    ELSE FixingParse(op, Head(replies), 0, Tail(replies), 1)

\* What follows the chain in the two callers; any exception is re-raised as
\* DocumentPortalException.
\*   analyze_document logs list(response.keys()) and returns response: a
\*   response that is not a dict raises AttributeError.
\*   compare_documents returns pd.DataFrame(response): a list of objects makes
\*   a frame, an object of scalar values raises ValueError.
Finish(op, r) ==
    IF r.status # "parsed" THEN r
    ELSE IF op = "analyze" /\ r.value.kind # "object"
    THEN [r EXCEPT !.status = "raised", !.error = "AttributeError", !.value = NoValue]
    ELSE IF op = "compare" /\ r.value.kind # "array"
    THEN [r EXCEPT !.status = "raised", !.error = "ValueError", !.value = NoValue]
    ELSE [r EXCEPT !.status = "returned"]

ExtractCall(op, replies) ==
    /\ extractRes' = [op |-> op, given |-> replies] @@ Finish(op, RunChain(op, replies))
    /\ UNCHANGED <<faiss, store, turnLog, lastCall, auxVars>>

\* DocumentAnalyzer().analyze_document(document_text)
AnalyzeDocument(replies) == ExtractCall("analyze", replies)

\* DocumentComparatorLLM().compare_documents(document_text)
CompareDocuments(replies) == ExtractCall("compare", replies)

(***************************************************************************)
(* Document comparison: the working folder of DocumentIngestion            *)
(*                                                                         *)
(* A directory maps the PDF names it can hold to the bytes of the file.    *)
(* An uploaded file has a name and bytes; the name is the text the client  *)
(* sent, so it can carry a parent component ("../a.pdf").                  *)
(***************************************************************************)
NoFile == "<no file>"
RootData == "R"
FileData == {"X", "Y"}

\* The PDF names of the model, in the order sorted() gives them
StemOrder == <<"a", "b", "c">>
CmpStems == {"a", "b", "c"}

\* The file named ".pdf": its name ends with ".pdf", its suffix is empty
DotPdf == ".pdf"

\* The names a directory of the model can hold: a.pdf, b.pdf, c.pdf and .pdf
DirNames == CmpStems \cup {DotPdf}

\* Path(name).suffix.lower() of a name in a directory
Suffix(n) == IF n = DotPdf THEN "" ELSE ".pdf"

\* file.name.endswith(".pdf") of an uploaded file
EndsWithPdf(name) == name.ext = ".pdf" \/ (name.ext = "" /\ name.stem = DotPdf)
CmpSessions == {"s1"}

UploadNames ==
    { [up |-> FALSE, stem |-> n, ext |-> ".pdf"] : n \in CmpStems } \cup
    { [up |-> FALSE, stem |-> "n", ext |-> ".txt"],
      [up |-> TRUE, stem |-> "a", ext |-> ".pdf"] }

UploadedFiles == [name : UploadNames, data : FileData]

\* data/document_compare as the tests find it: two canonical PDFs in the root
CmpRootInit == [n \in DirNames |-> IF n \in {"a", "b"} THEN RootData ELSE NoFile]

NoSave ==
    [session |-> NoSession, ref |-> <<>>, act |-> <<>>, status |-> "none",
     cause |-> "none", swapped |-> <<>>]

NoCombine == [session |-> NoSession, status |-> "none", cause |-> "none", parts |-> <<>>]

CmpInit ==
    [root |-> CmpRootInit, dirs |-> [s \in CmpSessions |-> [n \in DirNames |-> NoFile]],
     save |-> NoSave, combined |-> NoCombine]

\* open(self.session_dir / file.name, "wb").write(...): a name with a parent
\* component leaves the session folder for the root
WriteFile(fs, s, f) ==
    IF f.name.up
    THEN [fs EXCEPT !.root[f.name.stem] = f.data]
    ELSE [fs EXCEPT !.dirs[s][f.name.stem] = f.data]

\* DocumentIngestion.save_uploaded_files(reference_file, actual_file)
SaveFiles(fs, s, ref, act) ==
    IF s = NoSession
    THEN [status |-> "DocumentPortalException",
          cause |-> "session_id is required to save uploaded files", fs |-> fs]
    ELSE IF ~EndsWithPdf(ref.name) \/ ~EndsWithPdf(act.name)
    THEN [status |-> "DocumentPortalException",
          cause |-> "Only PDF files are supported", fs |-> fs]
    ELSE [status |-> "ok", cause |-> "none",
          fs |-> WriteFile(WriteFile(fs, s, ref), s, act)]

\* The PDF names of a directory in descending order
SortedPdfsDescending(dir) ==
    LET Has(n) == dir[n] # NoFile
        asc == SelectSeq(StemOrder, Has)
    IN  [i \in 1..Len(asc) |-> asc[Len(asc) + 1 - i]]

\* sorted(f for f in source_dir.iterdir() if f.is_file() and f.suffix.lower() == ".pdf")
SortedPdfs(dir) ==
    LET Has(n) == dir[n] # NoFile /\ Suffix(n) = ".pdf"
    IN  SelectSeq(StemOrder, Has)

\* role = "REFERENCE DOCUMENT" if idx == 0 else "ACTUAL DOCUMENT"
RoleOf(idx) == IF idx = 1 THEN "REFERENCE DOCUMENT" ELSE "ACTUAL DOCUMENT"

\* DocumentIngestion.combine_documents over a source directory: the parts
\* "===== <role> (<name>) =====\n<content>\n" in order
CombineText(dir) ==
    LET pdfs == SortedPdfs(dir)
    IN  IF Len(pdfs) < 2
        THEN [status |-> "DocumentPortalException",
              cause |-> "At least two PDF files are required for comparison",
              parts |-> <<>>]
        ELSE [status |-> "ok", cause |-> "none",
              parts |-> [i \in 1..Len(pdfs) |->
                            [role |-> RoleOf(i), name |-> pdfs[i], content |-> dir[pdfs[i]]]]]

\* DocumentIngestion(session_id=s).save_uploaded_files(ref, act)
\*   swapped is the folder the same call leaves when the two files are passed
\*   in the other order.
SaveUploadedFiles(s, ref, act) ==
    LET fs == [root |-> cmp.root, dirs |-> cmp.dirs]
        r == SaveFiles(fs, s, ref, act)
        sw == SaveFiles(fs, s, act, ref)
    IN  /\ cmp' = [root |-> r.fs.root, dirs |-> r.fs.dirs,
                   save |-> [session |-> s, ref |-> ref, act |-> act,
                             status |-> r.status, cause |-> r.cause, swapped |-> sw.fs],
                   combined |-> NoCombine]
        /\ UNCHANGED <<coreVars, eng, fn, sid, conc, disk>>

\* DocumentIngestion(session_id=s).combine_documents()
\*   source_dir = self.session_dir or self.base_dir
CombineDocuments(s) ==
    LET dir == IF s = NoSession THEN cmp.root ELSE cmp.dirs[s]
    IN  /\ cmp' = [cmp EXCEPT !.combined = [session |-> s] @@ CombineText(dir)]
        /\ UNCHANGED <<coreVars, eng, fn, sid, conc, disk>>

(***************************************************************************)
(* Generated session ids                                                   *)
(*                                                                         *)
(* The clock counts seconds of UTC.  A generated id is the prefix          *)
(* "session", the wall-clock second strftime prints in the zone the code    *)
(* asks for, and the suffix, if the code appends one.  uuid4().hex[:8] is   *)
(* taken as never repeating: each call draws a value not drawn before.      *)
(***************************************************************************)
HexPool == {"h1", "h2", "h3"}
NoSuffix == "<no suffix>"

\* ZoneInfo("Asia/Kolkata") is UTC+05:30
KolkataOffset == 19800

SessionId(second, suffix) == [prefix |-> "session", second |-> second, suffix |-> suffix]

\* multi_document_chat DocumentIngestor.__init__ with session_id omitted:
\*   f"session_{datetime.now(timezone.utc).strftime('%Y%m%d_%H%M%S')}_{uuid.uuid4().hex[:8]}"
MultiSessionId(now, hex) == SessionId(now, hex)

\* single_document_chat SingleDocIngestor.ingest_files:
\*   f"session_{datetime.now(timezone.utc).strftime('%Y%m%d_%H%M%S')}"
SingleSessionId(now, hex) == SessionId(now, NoSuffix)

\* utils/file_io._session_id(prefix="session"):
\*   f"{prefix}_{datetime.now(ist).strftime('%Y%m%d_%H%M%S')}_{uuid.uuid4().hex[:8]}"
UtilSessionId(now, hex) == SessionId(now + KolkataOffset, hex)

SidInit == [clock |-> 0, drawn |-> {}, made |-> <<>>]

\* A second passes
Tick ==
    /\ sid.clock < MaxClock
    /\ sid' = [sid EXCEPT !.clock = @ + 1]
    /\ UNCHANGED <<coreVars, eng, fn, cmp, conc, disk>>

\* One session is created with a generated id; its working directory is the
\* component's base directory joined with the id (mkdir with exist_ok=True).
CreateSession(component, base, id, hex) ==
    /\ Len(sid.made) < MaxCreated
    /\ sid' = [sid EXCEPT !.drawn = @ \cup ({hex} \ {NoSuffix}),
                          !.made = Append(@, [by |-> component, at |-> sid.clock,
                                              id |-> id, dir |-> <<base, id>>])]
    /\ UNCHANGED <<coreVars, eng, fn, cmp, conc, disk>>

\* DocumentIngestor() : self.session_temp_dir = self.temp_dir / self.session_id
MultiCreate(hex) ==
    CreateSession("DocumentIngestor", "data/multi_doc_chat", MultiSessionId(sid.clock, hex), hex)

\* SingleDocIngestor().ingest_files(...) : session_dir = self.data_dir / session_id
SingleCreate ==
    CreateSession("SingleDocIngestor", "data/single_document_chat",
                  SingleSessionId(sid.clock, NoSuffix), NoSuffix)

\* generate_session_id() of utils/file_io; its callers work under data/
UtilCreate(hex) ==
    CreateSession("generate_session_id", "data", UtilSessionId(sid.clock, hex), hex)

(***************************************************************************)
(* _SESSION_STORE under concurrent turns                                   *)
(*                                                                         *)
(* Threads of one process run turns of the single-document engine.  The    *)
(* store maps a session id to a history object; objects live in a heap and *)
(* are named by their place in it (0: the key is not in the store).  Each   *)
(* dict operation and each list extension is one step: the interpreter      *)
(* runs them without interleaving inside.                                   *)
(***************************************************************************)
Threads == {1, 2}

IdleThread == [pc |-> "idle", session |-> NoSession, q |-> "", ref |-> 0, ans |-> ""]

ConcInit ==
    [cstore |-> [s \in Sessions |-> 0],
     heap |-> <<>>,
     thr |-> [t \in Threads |-> IdleThread],
     done |-> [s \in Sessions |-> <<>>],
     overlap |-> [s \in Sessions |-> FALSE],
     parallel |-> FALSE,
     started |-> 0]

\* A dict assignment that rebuilds the dict with the new key alone
StoreInsertAlone(cs, s, ref) == [k \in DOMAIN cs |-> IF k = s THEN ref ELSE 0]

\* _SESSION_STORE[session_id] = <history object>
StoreInsert(cs, s, ref) == [cs EXCEPT ![s] = ref]

\* The history the store holds for a session id
StoredHistory(s) == IF conc.cstore[s] = 0 THEN <<>> ELSE conc.heap[conc.cstore[s]]

\* A thread calls ConversationalRAG(session_id=s, retriever).invoke(q)
StartTurn(t, s, q) ==
    /\ conc.thr[t].pc = "idle"
    /\ conc.started < MaxConcTurns
    /\ conc' = [conc EXCEPT
           !.thr[t] = [pc |-> "check", session |-> s, q |-> q, ref |-> 0, ans |-> ""],
           !.overlap[s] = @ \/ (\E o \in Threads \ {t} :
                                    conc.thr[o].pc # "idle" /\ conc.thr[o].session = s),
           !.parallel = @ \/ (\E o \in Threads \ {t} : conc.thr[o].pc # "idle"),
           !.started = @ + 1]
    /\ UNCHANGED <<coreVars, eng, fn, cmp, sid, disk>>

\* _get_session_history: if session_id not in _SESSION_STORE
CheckKey(t) ==
    /\ conc.thr[t].pc = "check"
    /\ conc' = [conc EXCEPT !.thr[t].pc =
                   IF conc.cstore[conc.thr[t].session] = 0 THEN "insert" ELSE "fetch"]
    /\ UNCHANGED <<coreVars, eng, fn, cmp, sid, disk>>

\* _get_session_history: _SESSION_STORE[session_id] = InMemoryChatMessageHistory()
InsertKey(t) ==
    /\ conc.thr[t].pc = "insert"
    /\ conc' = [conc EXCEPT
           !.heap = Append(@, <<>>),
           !.cstore = StoreInsert(@, conc.thr[t].session, Len(conc.heap) + 1),
           !.thr[t].pc = "fetch"]
    /\ UNCHANGED <<coreVars, eng, fn, cmp, sid, disk>>

\* _get_session_history: return _SESSION_STORE[session_id]
FetchHistory(t) ==
    /\ conc.thr[t].pc = "fetch"
    /\ conc' = [conc EXCEPT !.thr[t].ref = conc.cstore[conc.thr[t].session],
                            !.thr[t].pc = "run"]
    /\ UNCHANGED <<coreVars, eng, fn, cmp, sid, disk>>

\* The chain runs with the messages of the history object; an exception ends
\* the turn with nothing appended.
RunTurn(t, ok, ans) ==
    /\ conc.thr[t].pc = "run"
    /\ conc' = [conc EXCEPT !.thr[t] =
                   IF ok THEN [@ EXCEPT !.pc = "append", !.ans = ans] ELSE IdleThread]
    /\ UNCHANGED <<coreVars, eng, fn, cmp, sid, disk>>

\* RunnableWithMessageHistory adds the question and the answer to the history
\* object the thread holds.
AppendTurn(t) ==
    /\ conc.thr[t].pc = "append"
    /\ LET turn == <<conc.thr[t].q, conc.thr[t].ans>>
       IN  conc' = [conc EXCEPT
               !.heap[conc.thr[t].ref] = Append(@, turn),
               !.done[conc.thr[t].session] = Append(@, turn),
               !.thr[t] = IdleThread]
    /\ UNCHANGED <<coreVars, eng, fn, cmp, sid, disk>>

(***************************************************************************)
(* One index path on disk: index.faiss and index.pkl                        *)
(*                                                                         *)
(* FAISS.save_local writes the vectors to index.faiss and then pickles the  *)
(* docstore and the position-to-id table to index.pkl; FAISS.load_local     *)
(* reads index.faiss and then index.pkl.  Each file is written and read as  *)
(* one step.  A vector is a number; builds of one path come one after       *)
(* another, a load runs at any time.                                        *)
(***************************************************************************)
Corpora == { <<"t1">>, <<"t2", "t3">>, <<"t3", "t1", "t2">> }
QueryVectors == {0, 4}

\* The embedder: the same text always gets the same vector
Embed(text) == CASE text = "t1" -> 1 [] text = "t2" -> 2 [] OTHER -> 5

\* The docstore id of the chunk at a position of a build (a uuid in the code)
DocId(b, i) == <<b, i>>

\* FAISS.from_documents(documents=chunks, embedding=embeddings)
BuildIndex(b, chunks) ==
    [vectors |-> [i \in 1..Len(chunks) |-> Embed(chunks[i])],
     ids |-> [i \in 1..Len(chunks) |-> DocId(b, i)],
     docstore |-> [id \in { DocId(b, i) : i \in 1..Len(chunks) } |-> chunks[id[2]]]]

\* faiss.write_index(self.index, path / "index.faiss")
FaissPayload(b, index) == [build |-> b, vectors |-> index.vectors]

\* pickle.dump((self.docstore, self.index_to_docstore_id), path / "index.pkl")
PklPayload(b, index) == [build |-> b, docstore |-> index.docstore, ids |-> index.ids]

\* A load that reads the position-to-id table backwards
LoadLocalReversed(fa, pk) ==
    [vectors |-> fa.vectors, docstore |-> pk.docstore,
     ids |-> [i \in 1..Len(pk.ids) |-> pk.ids[Len(pk.ids) + 1 - i]]]

\* FAISS.load_local: cls(embeddings, index, docstore, index_to_docstore_id)
LoadLocal(fa, pk) == [vectors |-> fa.vectors, docstore |-> pk.docstore, ids |-> pk.ids]

Dist(x, v) == IF x >= v THEN x - v ELSE v - x

\* The positions of the k vectors nearest to v, nearest first
RECURSIVE Nearest(_, _, _, _)
Nearest(vectors, v, k, taken) ==
    LET cand == (1..Len(vectors)) \ taken
    IN  IF k = 0 \/ cand = {} THEN <<>>
        ELSE LET best == CHOOSE i \in cand : \A j \in cand :
                             \/ Dist(vectors[i], v) < Dist(vectors[j], v)
                             \/ Dist(vectors[i], v) = Dist(vectors[j], v) /\ i <= j
             IN  <<best>> \o Nearest(vectors, v, k - 1, taken \cup {best})

\* similarity search: the documents of the k nearest vectors; a position
\* without an id in the table raises
Query(index, v, k) ==
    LET pos == Nearest(index.vectors, v, k, {})
    IN  IF \E n \in 1..Len(pos) : pos[n] \notin DOMAIN index.ids
        THEN <<"KeyError">>
        ELSE [n \in 1..Len(pos) |-> index.docstore[index.ids[pos[n]]]]

NoPayload == [build |-> 0]
NoLoad == [status |-> "none", faissBuild |-> 0, pklBuild |-> 0, index |-> <<>>]

DiskInit ==
    [faissFile |-> NoPayload, pklFile |-> NoPayload,
     builder |-> [pc |-> "idle", build |-> 0],
     loader |-> [pc |-> "idle", held |-> NoPayload],
     mem |-> <<>>,
     loaded |-> NoLoad]

\* _create_retriever: the splitter's chunks are embedded into a new store
StartBuild(chunks) ==
    /\ disk.builder.pc = "idle"
    /\ Len(disk.mem) < MaxBuilds
    /\ disk' = [disk EXCEPT
           !.mem = Append(@, BuildIndex(Len(disk.mem) + 1, chunks)),
           !.builder = [pc |-> "write_faiss", build |-> Len(disk.mem) + 1]]
    /\ UNCHANGED <<coreVars, eng, fn, cmp, sid, conc>>

\* vectorstore.save_local, first file
WriteFaiss ==
    /\ disk.builder.pc = "write_faiss"
    /\ disk' = [disk EXCEPT
           !.faissFile = FaissPayload(disk.builder.build, disk.mem[disk.builder.build]),
           !.builder.pc = "write_pkl"]
    /\ UNCHANGED <<coreVars, eng, fn, cmp, sid, conc>>

\* vectorstore.save_local, second file
WritePkl ==
    /\ disk.builder.pc = "write_pkl"
    /\ disk' = [disk EXCEPT
           !.pklFile = PklPayload(disk.builder.build, disk.mem[disk.builder.build]),
           !.builder.pc = "idle"]
    /\ UNCHANGED <<coreVars, eng, fn, cmp, sid, conc>>

\* load_retriever_from_faiss, FAISS.load_local, first file: faiss.read_index
\* raises when index.faiss is not there
ReadFaiss ==
    /\ disk.loader.pc = "idle"
    /\ disk' = IF disk.faissFile = NoPayload
               THEN [disk EXCEPT !.loaded = [NoLoad EXCEPT !.status = "RuntimeError"]]
               ELSE [disk EXCEPT !.loader = [pc |-> "read_pkl", held |-> disk.faissFile],
                                 !.loaded = NoLoad]
    /\ UNCHANGED <<coreVars, eng, fn, cmp, sid, conc>>

\* FAISS.load_local, second file: open(index.pkl) raises when it is not there;
\* nothing compares the two payloads
ReadPkl ==
    /\ disk.loader.pc = "read_pkl"
    /\ disk' = [disk EXCEPT
           !.loader = [pc |-> "idle", held |-> NoPayload],
           !.loaded = IF disk.pklFile = NoPayload
                      THEN [NoLoad EXCEPT !.status = "FileNotFoundError"]
                      ELSE [status |-> "ok", faissBuild |-> disk.loader.held.build,
                            pklBuild |-> disk.pklFile.build,
                            index |-> LoadLocal(disk.loader.held, disk.pklFile)]]
    /\ UNCHANGED <<coreVars, eng, fn, cmp, sid, conc>>

(***************************************************************************)
(* Retrieval size                                                          *)
(*                                                                         *)
(* The retriever of a loaded index is made with a fixed search_kwargs k;   *)
(* a similarity search over n vectors gives the nearest min(k, n).         *)
(***************************************************************************)
\* chat_query(..., k: int = Form(5))
ApiDefaultK == 5

\* multi_document_chat load_retriever_from_faiss: search_kwargs={"k": 5}
MultiLoaderK == 5

\* single_document_chat load_retriever_from_faiss: search_kwargs={"k": 3}
SingleLoaderK == 3

NoK == 0
NoFn == [op |-> "none"]

\* An index of n chunks
IndexOfSize(n) == BuildIndex(1, [i \in 1..n |-> IF i = 1 THEN "t1" ELSE IF i = 2 THEN "t2" ELSE "t3"])

\* vectorstore.as_retriever(search_type="similarity", search_kwargs={"k": <literal>}):
\* the k of the request is not an argument of load_retriever_from_faiss
RetrieverK(loaderK, requested) == loaderK

RetrievalRecord(engine, n, requested, default, v, docs) ==
    [op |-> "retrieve", engine |-> engine, n |-> n, requested |-> requested,
     default |-> default, vector |-> v, docs |-> docs, returned |-> Len(docs)]

\* chat_query(question, session_id, use_session__dirs, k) over an index of n
\* chunks: the handler loads the retriever and invokes the engine; k goes
\* into the response only.  requested = NoK: the form field was left out.
ApiRetrieve(n, requested, v) ==
    LET k == IF requested = NoK THEN ApiDefaultK ELSE requested
    IN  /\ fn' = RetrievalRecord("api", n, requested, ApiDefaultK, v,
                                 Query(IndexOfSize(n), v, RetrieverK(MultiLoaderK, k)))
        /\ UNCHANGED <<coreVars, cmp, sid, conc, disk, eng>>

\* single_document_chat: the retriever load_retriever_from_faiss returns, asked
\* for the documents of a query; no k can be supplied.
SingleRetrieve(n, v) ==
    /\ fn' = RetrievalRecord("single", n, NoK, SingleLoaderK, v,
                             Query(IndexOfSize(n), v, RetrieverK(SingleLoaderK, NoK)))
    /\ UNCHANGED <<coreVars, cmp, sid, conc, disk, eng>>

(***************************************************************************)
(* Text extraction: read_pdf of the comparison and of the analysis flow    *)
(*                                                                         *)
(* A PDF is its sequence of page texts and whether it needs a password.    *)
(* The extracted text is the sequence of blocks "\n-- Page N --\n<text>",   *)
(* joined by newlines; a block is modelled by N and the text.              *)
(***************************************************************************)
PageTexts == {"", " ", "txt"}

RECURSIVE SeqsUpTo(_, _)
SeqsUpTo(S, n) ==
    IF n = 0 THEN { <<>> }
    ELSE LET shorter == SeqsUpTo(S, n - 1)
         IN  shorter \cup { Append(q, x) : q \in { r \in shorter : Len(r) = n - 1 }, x \in S }

Pdfs == [encrypted : BOOLEAN, pages : SeqsUpTo(PageTexts, MaxPages)]

\* str.strip() on a page text
Strip(text) == IF text = " " THEN "" ELSE text

\* A check that takes every document as readable
IsEncryptedNever(doc) == FALSE

\* fitz: doc.is_encrypted, true while the document is not authenticated
IsEncrypted(doc) == doc.encrypted

ReadResult(status, cause, blocks) == [status |-> status, cause |-> cause, blocks |-> blocks]

\* The blocks of the pages from page i on, in page order; with skipBlank a
\* page whose stripped text is empty gets no block
RECURSIVE BlocksFrom(_, _, _)
BlocksFrom(pages, i, skipBlank) ==
    IF i > Len(pages) THEN <<>>
    ELSE (IF skipBlank /\ Strip(pages[i]) = "" THEN <<>>
          ELSE << [page |-> i, text |-> pages[i]] >>)
             \o BlocksFrom(pages, i + 1, skipBlank)

\* document_compare DocumentIngestion.read_pdf:
\*   if doc.is_encrypted: raise ValueError("Encrypted PDF is not supported")
\*   for page_num in range(doc.page_count): if text.strip(): "-- Page {page_num + 1} --"
\*   every exception is re-raised as DocumentPortalException("Error reading PDF file")
CompareReadPdf(doc) ==
    IF IsEncrypted(doc)
    THEN ReadResult("DocumentPortalException", "Encrypted PDF is not supported", <<>>)
    ELSE ReadResult("ok", "none", BlocksFrom(doc.pages, 1, TRUE))

\* document_analyzer DocumentHandler.read_pdf:
\*   for page_num, page in enumerate(doc, start=1): "-- Page {page_num} --" + page.get_text()
\*   there is no check of is_encrypted: loading a page of a document that is
\*   still encrypted raises ValueError("document closed or encrypted"), which
\*   is re-raised as DocumentPortalException.
AnalyzerReadPdf(doc) ==
    IF IsEncrypted(doc)
    THEN ReadResult("DocumentPortalException", "document closed or encrypted", <<>>)
    ELSE ReadResult("ok", "none", BlocksFrom(doc.pages, 1, FALSE))

\* DocumentIngestion().read_pdf(path)
ReadPdfForComparison(doc) ==
    /\ fn' = [op |-> "read_pdf", entry |-> "compare", doc |-> doc] @@ CompareReadPdf(doc)
    /\ UNCHANGED <<coreVars, cmp, sid, conc, disk, eng>>

\* DocumentHandler().read_pdf(path)
ReadPdfForAnalysis(doc) ==
    /\ fn' = [op |-> "read_pdf", entry |-> "analysis", doc |-> doc] @@ AnalyzerReadPdf(doc)
    /\ UNCHANGED <<coreVars, cmp, sid, conc, disk, eng>>

(***************************************************************************)
(* Chunking: RecursiveCharacterTextSplitter(chunk_size, chunk_overlap)     *)
(*                                                                         *)
(* A text is a sequence of characters.  The splitter is the library's      *)
(* default one: separators "\n\n", "\n", " ", "", the separator kept at    *)
(* the start of the piece that follows it, lengths counted in characters,  *)
(* and every chunk stripped of surrounding whitespace.  The ingestors use  *)
(* chunk_size 1000 and chunk_overlap 300; the model runs the same          *)
(* algorithm on small sizes.                                               *)
(***************************************************************************)
Chars == {"a", " ", "\n"}
Whitespace == {" ", "\n"}
Texts == SeqsUpTo(Chars, MaxTextLen)
ChunkSizes == 2..MaxChunkSize
Separators == << <<"\n", "\n">>, <<"\n">>, <<" ">>, <<>> >>

\* The separator occurs in the text at position i
Occurs(text, sep, i) ==
    /\ i + Len(sep) - 1 <= Len(text)
    /\ SubSeq(text, i, i + Len(sep) - 1) = sep

\* re.search(separator, text), for a separator that is not empty
Search(text, sep) == \E i \in 1..Len(text) : Occurs(text, sep, i)

\* re.split(separator, text): the pieces between the matches, left to right
RECURSIVE ReSplit(_, _)
ReSplit(text, sep) ==
    IF ~Search(text, sep) THEN << text >>
    ELSE LET i == CHOOSE j \in 1..Len(text) :
                      /\ Occurs(text, sep, j)
                      /\ \A l \in 1..(j - 1) : ~Occurs(text, sep, l)
         IN  << SubSeq(text, 1, i - 1) >> \o ReSplit(SubSeq(text, i + Len(sep), Len(text)), sep)

\* _split_text_with_regex(text, separator, keep_separator=True): each
\* separator goes to the start of the piece after it; the empty separator
\* gives the list of characters; empty pieces are dropped
SplitTextWithRegex(text, sep) ==
    LET raw == ReSplit(text, sep)
        pieces == IF sep = <<>> THEN [i \in 1..Len(text) |-> << text[i] >>]
                  ELSE [i \in 1..Len(raw) |-> IF i = 1 THEN raw[1] ELSE sep \o raw[i]]
    IN  SelectSeq(pieces, LAMBDA s : s # <<>>)

\* str.strip()
RECURSIVE LStrip(_)
LStrip(text) == IF text # <<>> /\ Head(text) \in Whitespace THEN LStrip(Tail(text)) ELSE text

RECURSIVE RStrip(_)
RStrip(text) ==
    IF text # <<>> /\ text[Len(text)] \in Whitespace THEN RStrip(SubSeq(text, 1, Len(text) - 1))
    ELSE text

StripWhitespace(text) == LStrip(RStrip(text))

\* "".join(docs)
RECURSIVE Concat(_)
Concat(docs) == IF docs = <<>> THEN <<>> ELSE Head(docs) \o Concat(Tail(docs))

\* _join_docs(docs, ""): the joined pieces, stripped; None (here <<>>) when
\* nothing is left
JoinDocs(docs) == StripWhitespace(Concat(docs))

\* The loop of _merge_splits that drops pieces from the front of the current
\* chunk until what is kept is at most the overlap and the next piece fits
RECURSIVE PopFront(_, _, _, _, _)
PopFront(cur, total, len, size, overlap) ==
    IF total > overlap \/ (total + len > size /\ total > 0)
    THEN PopFront(Tail(cur), total - Len(Head(cur)), len, size, overlap)
    ELSE [cur |-> cur, total |-> total]

\* _merge_splits(splits, ""), from piece i on
RECURSIVE MergeFrom(_, _, _, _, _, _, _)
MergeFrom(splits, i, docs, cur, total, size, overlap) ==
    LET last == JoinDocs(cur)
    IN  IF i > Len(splits)
        THEN IF last = <<>> THEN docs ELSE Append(docs, last)
        ELSE LET len == Len(splits[i])
                 flush == total + len > size /\ cur # <<>>
                 emitted == IF flush /\ last # <<>> THEN Append(docs, last) ELSE docs
                 kept == IF flush THEN PopFront(cur, total, len, size, overlap)
                         ELSE [cur |-> cur, total |-> total]
             IN  MergeFrom(splits, i + 1, emitted, Append(kept.cur, splits[i]),
                           kept.total + len, size, overlap)

MergeSplits(splits, size, overlap) == MergeFrom(splits, 1, <<>>, <<>>, 0, size, overlap)

\* The first separator of the list, from position level on, that is empty or
\* occurs in the text
SeparatorLevel(text, level) ==
    CHOOSE j \in level..Len(Separators) :
        /\ Separators[j] = <<>> \/ Search(text, Separators[j])
        /\ \A l \in level..(j - 1) : Separators[l] # <<>> /\ ~Search(text, Separators[l])

\* RecursiveCharacterTextSplitter._split_text(text, separators): pieces
\* shorter than the chunk size are merged, a longer piece is split again with
\* the separators that remain, or kept as it is when none remains
RECURSIVE SplitTextAt(_, _, _, _)
RECURSIVE SplitLoop(_, _, _, _, _, _, _)
SplitLoop(splits, i, good, final, level, size, overlap) ==
    IF i > Len(splits)
    THEN IF good # <<>> THEN final \o MergeSplits(good, size, overlap) ELSE final
    ELSE IF Len(splits[i]) < size
         THEN SplitLoop(splits, i + 1, Append(good, splits[i]), final, level, size, overlap)
         ELSE LET merged == IF good # <<>> THEN final \o MergeSplits(good, size, overlap)
                            ELSE final
                  deeper == IF Separators[level] = <<>> THEN << splits[i] >>
                            ELSE SplitTextAt(splits[i], level + 1, size, overlap)
              IN  SplitLoop(splits, i + 1, <<>>, merged \o deeper, level, size, overlap)

SplitTextAt(text, from, size, overlap) ==
    LET level == SeparatorLevel(text, from)
    IN  SplitLoop(SplitTextWithRegex(text, Separators[level]), 1, <<>>, <<>>, level, size, overlap)

\* splitter.split_text(text)
SplitText(text, size, overlap) == SplitTextAt(text, 1, size, overlap)

\* splitter.split_documents([document]) in _create_retriever
SplitDocuments(text, size, overlap) ==
    /\ fn' = [op |-> "split", text |-> text, size |-> size, overlap |-> overlap,
              chunks |-> SplitText(text, size, overlap)]
    /\ UNCHANGED <<coreVars, cmp, sid, conc, disk, eng>>

(***************************************************************************)
(* Engine objects: which index an invoke searches                          *)
(*                                                                         *)
(* A retriever is identified by the index directory it searches.  An       *)
(* engine object holds its attribute self.retriever and the retriever that *)
(* was wired into self.chain when the chain was built; loaded and context  *)
(* record the last directory loaded on the object and the directory the    *)
(* last invoke searched.                                                   *)
(***************************************************************************)
IndexPaths == {"faiss_index", "faiss_index/s1", "faiss_index/s2", "faiss_index/s3"}
NoIndex == "none"
EngineKinds == {"multi", "single"}

NoEngine ==
    [kind |-> "none", retriever |-> NoIndex, chained |-> NoIndex,
     loaded |-> NoIndex, context |-> NoIndex, op |-> "none", status |-> "none"]

\* ConversationalRAG(session_id, retriever): both constructors store the
\* retriever and build the chain around it
Construct(kind, r) ==
    /\ eng' = [kind |-> kind, retriever |-> r, chained |-> r,
               loaded |-> NoIndex, context |-> NoIndex, op |-> "construct", status |-> "ok"]
    /\ UNCHANGED <<coreVars, cmp, sid, conc, disk, fn>>

\* multi_document_chat load_retriever_from_faiss(path): assigns
\* self.retriever and calls _build_lcel_chain() again
MultiLoadInto(e, path) == [e EXCEPT !.retriever = path, !.chained = path, !.loaded = path]

\* single_document_chat load_retriever_from_faiss(path): returns the new
\* retriever; self.retriever and the chain built in __init__ are not assigned
SingleLoadInto(e, path) == [e EXCEPT !.loaded = path]

\* rag.load_retriever_from_faiss(path); a path that is no directory raises
\* DocumentPortalException and leaves the object as it was
LoadRetriever(path, present) ==
    /\ eng.kind \in EngineKinds
    /\ eng' = IF ~present
              THEN [eng EXCEPT !.op = "load", !.status = "DocumentPortalException"]
              ELSE [(IF eng.kind = "multi" THEN MultiLoadInto(eng, path)
                     ELSE SingleLoadInto(eng, path))
                        EXCEPT !.op = "load", !.status = "ok"]
    /\ UNCHANGED <<coreVars, cmp, sid, conc, disk, fn>>

\* rag.invoke(question): self.chain runs, and searches the retriever that
\* was wired into it
EngineInvoke ==
    /\ eng.kind \in EngineKinds
    /\ eng' = [eng EXCEPT !.context = eng.chained, !.op = "invoke", !.status = "ok"]
    /\ UNCHANGED <<coreVars, cmp, sid, conc, disk, fn>>

(***************************************************************************)
(* Specifications                                                          *)
(***************************************************************************)
NoExtract ==
    [op |-> "none", given |-> <<>>] @@
    ExtractResult("none", "none", 0, 0, NoValue, BackendDown)

Init ==
    /\ faiss = [p \in Paths |-> Absent]
    /\ store = [s \in Sessions |-> NoHistory]
    /\ turnLog = [s \in Sessions |-> <<>>]
    /\ lastCall = NoCall
    /\ extractRes = NoExtract
    /\ cmp = CmpInit
    /\ sid = SidInit
    /\ conc = ConcInit
    /\ disk = DiskInit
    /\ eng = NoEngine
    /\ fn = NoFn

\* Ingestion and the /chat/query handler over the index locations.  The handler
\* is driven with one question, one rewrite and one non-empty answer; the engines are driven
\* with every input under SpecChat.  The ingestors are driven here with the
\* files that have text, and with every file under SpecIngest.
ApiQuestions == {"q1"}
ApiAnswers == {"ans"}
ApiRewrites == {"rw"}
ApiUploads == { f \in Uploads : f.stem \notin EmptyStems }
ApiRootPdfs == { f \in RootPdfs : f.stem \notin EmptyStems }

Next ==
    \/ \E s \in Sessions, files \in SUBSET ApiUploads, embedOk \in BOOLEAN :
           MultiIngest(s, files, embedOk)
    \/ \E s \in Sessions, files \in SUBSET ApiRootPdfs, embedOk \in BOOLEAN :
           SingleIngest(s, files, embedOk)
    \/ \E s \in Sessions \cup {NoSession}, use \in BOOLEAN, q \in ApiQuestions,
          rw \in ApiRewrites, fault \in Faults, ans \in ApiAnswers :
           ChatQuery(s, use, q, rw, fault, ans)

Spec == Init /\ [][Next]_vars

\* The two ingestors driven with every set of files
NextIngest ==
    \/ \E s \in Sessions, files \in SUBSET Uploads, embedOk \in BOOLEAN :
           MultiIngest(s, files, embedOk)
    \/ \E s \in Sessions, files \in SUBSET RootPdfs, embedOk \in BOOLEAN :
           SingleIngest(s, files, embedOk)

SpecIngest == Init /\ [][NextIngest]_vars

\* Saving two uploads into the comparison folder and combining them
NextCompare ==
    \/ \E s \in CmpSessions \cup {NoSession}, ref \in UploadedFiles, act \in UploadedFiles :
           SaveUploadedFiles(s, ref, act)
    \/ \E s \in CmpSessions \cup {NoSession} : CombineDocuments(s)

SpecCompare == Init /\ [][NextCompare]_vars

\* Uploads whose names end with ".pdf" or not, and the combine that follows
AcceptNames ==
    { [up |-> FALSE, stem |-> "a", ext |-> ".pdf"],
      [up |-> FALSE, stem |-> "b", ext |-> ".pdf"],
      [up |-> FALSE, stem |-> DotPdf, ext |-> ""],
      [up |-> FALSE, stem |-> "n", ext |-> ".txt"] }

AcceptFiles == [name : AcceptNames, data : {"X"}]

NextAccept ==
    \/ \E s \in CmpSessions, ref \in AcceptFiles, act \in AcceptFiles :
           SaveUploadedFiles(s, ref, act)
    \/ \E s \in CmpSessions : CombineDocuments(s)

SpecAccept == Init /\ [][NextAccept]_vars

\* Sessions created with generated ids while the clock runs
NextSession ==
    \/ Tick
    \/ \E hex \in HexPool \ sid.drawn : MultiCreate(hex)
    \/ SingleCreate
    \/ \E hex \in HexPool \ sid.drawn : UtilCreate(hex)

SpecSession == Init /\ [][NextSession]_vars

\* The single-document engine with its store: turns, index loads and builds,
\* each by an engine object made for the call
StoreFaults == {"none", "answer"}
StoreFiles == { {f} : f \in { g \in RootPdfs : g.stem = "a" } }

NextStore ==
    \/ \E s \in Sessions, q \in Questions, fault \in StoreFaults, ans \in AnswerOutputs :
           SingleInvoke(s, q, "rw", fault, ans)
    \/ \E s \in Sessions, p \in Paths : SingleLoadRetriever(s, p)
    \/ \E s \in Sessions, files \in StoreFiles : SingleIngest(s, files, TRUE)

SpecStore == Init /\ [][NextStore]_vars

\* Turns of the single-document engine run by concurrent threads
NextConc ==
    \/ \E t \in Threads, s \in Sessions, q \in Questions : StartTurn(t, s, q)
    \/ \E t \in Threads : CheckKey(t)
    \/ \E t \in Threads : InsertKey(t)
    \/ \E t \in Threads : FetchHistory(t)
    \/ \E t \in Threads, ok \in BOOLEAN, ans \in AnswerOutputs : RunTurn(t, ok, ans)
    \/ \E t \in Threads : AppendTurn(t)

SpecConc == Init /\ [][NextConc]_vars

\* Builds of one index path, one after another, and loads at any time
NextDisk ==
    \/ \E chunks \in Corpora : StartBuild(chunks)
    \/ WriteFaiss
    \/ WritePkl
    \/ ReadFaiss
    \/ ReadPkl

SpecDisk == Init /\ [][NextDisk]_vars

\* Retrievals over indexes of every size, with and without a requested k
NextRetrieve ==
    \/ \E n \in 1..MaxIndexChunks, requested \in {NoK} \cup (1..MaxIndexChunks),
          v \in QueryVectors : ApiRetrieve(n, requested, v)
    \/ \E n \in 1..MaxIndexChunks, v \in QueryVectors : SingleRetrieve(n, v)

SpecRetrieve == Init /\ [][NextRetrieve]_vars

\* Text extraction of every document, by both entry points
NextRead ==
    \/ \E doc \in Pdfs : ReadPdfForComparison(doc)
    \/ \E doc \in Pdfs : ReadPdfForAnalysis(doc)

SpecRead == Init /\ [][NextRead]_vars

\* Splitting of every text under every chunk size and smaller overlap
NextSplit ==
    \E text \in Texts, size \in ChunkSizes :
        \E overlap \in 0..(size - 1) : SplitDocuments(text, size, overlap)

SpecSplit == Init /\ [][NextSplit]_vars

\* One engine object at a time: constructed, loaded and invoked in any order
NextEngine ==
    \/ \E kind \in EngineKinds, r \in IndexPaths : Construct(kind, r)
    \/ \E path \in IndexPaths, present \in BOOLEAN : LoadRetriever(path, present)
    \/ EngineInvoke

SpecEngine == Init /\ [][NextEngine]_vars

\* The two engines driven directly
NextChat ==
    \/ \E s \in Sessions, q \in Questions, rw \in RewriteOutputs, fault \in Faults,
          ans \in AnswerOutputs :
           SingleInvoke(s, q, rw, fault, ans)
    \/ \E s \in Sessions, q \in Questions, hist \in CallerHistories,
          rw \in RewriteOutputs, fault \in Faults, ans \in AnswerOutputs :
           MultiInvoke(s, q, hist, rw, fault, ans)

SpecChat == Init /\ [][NextChat]_vars

\* The two structured extraction calls
NextExtract ==
    \/ \E replies \in [1..MaxBackendCalls -> Replies] : AnalyzeDocument(replies)
    \/ \E replies \in [1..MaxBackendCalls -> Replies] : CompareDocuments(replies)

SpecExtract == Init /\ [][NextExtract]_vars

(***************************************************************************)
(* Properties                                                              *)
(***************************************************************************)
\* The turn of the most recent call, if it ran one
Turn == IF lastCall.op \in {"chat_query", "invoke"} THEN lastCall.turn ELSE NoTurn

\* C1: Session isolation of indexes.  A /chat/query that loaded an index
\* without asking for the shared root loaded the index persisted for its own
\* session id, and a successful ingestion for one session never wrote over the
\* index persisted for another session.
C1_SessionIsolation ==
    /\ (lastCall.op = "chat_query" /\ Turn.engine # "none" /\ ~lastCall.shared)
           => lastCall.owner = lastCall.session
    /\ (lastCall.op = "ingest" /\ lastCall.status = "ok")
           => lastCall.replaced.owner \in {NoSession, lastCall.session}

\* C2: History continuity.  Once a session has at least one completed turn,
\* the history handed to the rewrite step of its next turn is the sequence of
\* all its earlier turns, in order (engines that own the session's history:
\* the /chat/query handler and the single-document engine).
C2_HistoryContinuity ==
    (Turn.engine \in {"api", "single"} /\ Len(Turn.earlier) >= 1)
        => Turn.history = Turn.earlier

C4_BoundedRepair ==
    extractRes.status # "none"
        => /\ extractRes.status \in {"returned", "raised"}
           /\ extractRes.repairs <= 1
           /\ extractRes.calls <= 2

\* The backend answered every call with text that is not JSON
C4_Witness ==
    /\ extractRes.status = "raised"
    /\ extractRes.error = "OutputParserException"
    /\ extractRes.calls = 2
    /\ extractRes.repairs = 1
    /\ \A i \in DOMAIN extractRes.given :
           extractRes.given[i] # BackendDown /\ ~extractRes.given[i].json

\* C5: A structured extraction call returns a record only if the record
\* conforms to the declared schema.
C5_OnlyConformingRecords ==
    extractRes.status = "returned" => Conforms(extractRes.op, extractRes.value)

\* C6: When the first reply of the backend is not JSON and the second is
\* schema-valid JSON, the call returns the record of the second reply after
\* exactly one repair and two backend calls.
C6_RepairSucceedsOnSecondTry ==
    (/\ extractRes.status # "none"
     /\ extractRes.given[1] # BackendDown
     /\ ~extractRes.given[1].json
     /\ Conforms(extractRes.op, extractRes.given[2].value))
        => /\ extractRes.status = "returned"
           /\ extractRes.value = extractRes.given[2].value
           /\ extractRes.repairs = 1
           /\ extractRes.calls = 2

C6_Witness ==
    /\ extractRes.status = "returned"
    /\ extractRes.repairs = 1
    /\ extractRes.given[1] # BackendDown
    /\ ~extractRes.given[1].json
    /\ Conforms(extractRes.op, extractRes.given[2].value)
    /\ extractRes.given[3] = BackendDown

\* C7: Rebuild fully replaces.  After a successful build the index at the
\* path holds exactly the chunks of that build, and none of the chunks of the
\* index it replaced that the build does not contain.
C7_RebuildReplaces ==
    (lastCall.op = "ingest" /\ lastCall.status = "ok")
        => /\ faiss[lastCall.path].kind = "index"
           /\ faiss[lastCall.path].chunks = lastCall.built
           /\ (lastCall.replaced.chunks \ lastCall.built) \cap faiss[lastCall.path].chunks = {}

\* A build over an index that held chunks the new build does not have
C7_Witness ==
    /\ lastCall.op = "ingest"
    /\ lastCall.status = "ok"
    /\ lastCall.replaced.kind = "index"
    /\ lastCall.replaced.chunks \ lastCall.built # {}
    /\ lastCall.built \ lastCall.replaced.chunks # {}

\* C8: Rewrite is a no-op on an empty history.  A turn whose history is empty
\* makes no rewrite call and queries the retriever with the question as asked.
C8_RewriteNoOpOnEmptyHistory ==
    (Turn.engine # "none" /\ Turn.history = <<>>)
        => /\ Turn.rewriteCalls = 0
           /\ Turn.standalone = Turn.question

\* C9: Rewrite falls back on empty output.  When the history is not empty and
\* the backend's reply to the rewrite prompt is the empty string, the retriever
\* is queried with the original question.
C9_RewriteFallsBackOnEmptyOutput ==
    (Turn.engine # "none" /\ Turn.history # <<>> /\ Turn.rewriteOut = "")
        => Turn.standalone = Turn.question

\* C10: No-Answer sentinel.  When the backend's answer is empty the turn
\* returns "No Answer", in both engines.
C10_NoAnswerSentinel ==
    (Turn.engine # "none" /\ Turn.status = "ok" /\ Turn.response = "")
        => Turn.result = "No Answer"

\* The files of the last ingestion request that were taken as documents
Accepted == IF lastCall.op = "ingest" THEN lastCall.given \ lastCall.skipped ELSE {}

C19_UnsupportedTypeIsAnError ==
    (lastCall.op = "ingest" /\ lastCall.skipped # {}) => lastCall.status # "ok"

\* The last save put two files of distinct plain names into a session folder
\* that now holds these two PDFs and no other, and the folder was combined
CmpTwoDocuments ==
    /\ cmp.save.status = "ok"
    /\ cmp.combined.status # "none"
    /\ cmp.combined.session = cmp.save.session
    /\ ~cmp.save.ref.name.up /\ ~cmp.save.act.name.up
    /\ cmp.save.ref.name.stem # cmp.save.act.name.stem
    /\ { n \in CmpStems : cmp.dirs[cmp.save.session][n] # NoFile }
           = {cmp.save.ref.name.stem, cmp.save.act.name.stem}

\* The place of a PDF name in the sorted order of names
StemIndex(n) == CHOOSE i \in 1..Len(StemOrder) : StemOrder[i] = n

C20_RootNeverWritten ==
    /\ cmp.root = CmpRootInit
    /\ (cmp.save.status # "none" /\ cmp.save.session = NoSession)
           => cmp.save.status = "DocumentPortalException"

\* C13: Generated session ids.  Every session created without a supplied id
\* has an id made of the UTC second of its creation and a random suffix, and
\* any two created sessions, also two of the same second, have distinct ids
\* and distinct working directories.
C13_GeneratedIdsAreDistinct ==
    /\ \A i \in 1..Len(sid.made) :
           /\ sid.made[i].id.second = sid.made[i].at
           /\ sid.made[i].id.suffix \in HexPool
    /\ \A i, j \in 1..Len(sid.made) :
           i # j => /\ sid.made[i].id # sid.made[j].id
                    /\ sid.made[i].dir # sid.made[j].dir

IsPrefix(a, b) == Len(a) <= Len(b) /\ SubSeq(b, 1, Len(a)) = a

\* C14: Turn history is append-only.  Every step (a turn, an index load, an
\* index build, each by a new engine object) leaves the stored history of
\* every session as a prefix of what it is afterwards, and a completed turn
\* makes it longer.
C14_HistoryAppendOnly ==
    [][\A s \in Sessions :
           /\ IsPrefix(store[s].messages, store'[s].messages)
           /\ turnLog'[s] # turnLog[s]
                  => Len(store'[s].messages) > Len(store[s].messages)]_vars

\* A session has two turns and an index was loaded after them
C14_Witness ==
    /\ \E s \in Sessions : Len(store[s].messages) = 2
    /\ lastCall.op = "load"
    /\ lastCall.outcome = "loaded"

\* C15: Conversation state is keyed by session id.  The history stored for a
\* session holds exactly the turns invoked with that session id, in order, and
\* an engine object made for a session id sees the history left by the engine
\* objects made for that id before it.
C15_HistoryKeyedBySession ==
    /\ \A s \in Sessions : store[s].messages = turnLog[s]
    /\ (Turn.engine = "single") => Turn.history = Turn.earlier

\* Both sessions have a turn of their own, with different questions
C15_Witness ==
    /\ Turn.engine = "single"
    /\ \A s \in Sessions : Len(store[s].messages) = 1
    /\ store["s1"].messages # store["s2"].messages

\* C16: Unrelated sessions need no serialization.  Whatever turns run at the
\* same time on other session ids, a session whose own turns never ran at the
\* same time has in the store exactly its completed turns, in the order they
\* completed: the history it gets when its turns run alone.
C16_UnrelatedSessionsIndependent ==
    \A s \in Sessions : ~conc.overlap[s] => StoredHistory(s) = conc.done[s]

\* Turns ran at the same time, never two of the same session, and both
\* sessions have completed turns
C16_Witness ==
    /\ conc.parallel
    /\ \A s \in Sessions : ~conc.overlap[s] /\ conc.done[s] # <<>>
    /\ \E s \in Sessions : Len(conc.done[s]) = 2

\* C17: Persisted index consistency.  A load that succeeds returns the two
\* payloads of one build, describing the same number of chunks.
C17_LoadedIndexIsOneBuild ==
    disk.loaded.status = "ok"
        => /\ disk.loaded.faissBuild = disk.loaded.pklBuild
           /\ Len(disk.loaded.index.vectors) = Len(disk.loaded.index.ids)

Min(a, b) == IF a <= b THEN a ELSE b

\* C21: Retrieval size.  A query with requested k over an index of n chunks
\* retrieves min(k, n) chunks, k being the value of the request or, when the
\* request has none, the default.
C21_RetrievalSize ==
    fn.op = "retrieve"
        => fn.returned = Min(IF fn.requested = NoK THEN fn.default ELSE fn.requested, fn.n)

C24_PageBlocks ==
    (fn.op = "read_pdf" /\ fn.status = "ok")
        => /\ { fn.blocks[j].page : j \in 1..Len(fn.blocks) }
                  = { i \in 1..Len(fn.doc.pages) : fn.doc.pages[i] \notin {"", " "} }
           /\ \A j \in 1..Len(fn.blocks) : fn.blocks[j].text = fn.doc.pages[fn.blocks[j].page]
           /\ \A j, l \in 1..Len(fn.blocks) : j < l => fn.blocks[j].page < fn.blocks[l].page

\* C23: Chunk reconstruction.  For every text and every chunk size with a
\* smaller overlap, the chunks of the text, with at most the overlap trimmed
\* from the start of each chunk after the first and concatenated in order,
\* are the text itself.
C23_ChunksReconstructText ==
    fn.op = "split"
        => \E trim \in [1..Len(fn.chunks) -> 0..fn.overlap] :
               /\ \A i \in 1..Len(fn.chunks) :
                      /\ trim[i] <= Len(fn.chunks[i])
                      /\ i = 1 => trim[i] = 0
               /\ Concat([i \in 1..Len(fn.chunks) |->
                             SubSeq(fn.chunks[i], trim[i] + 1, Len(fn.chunks[i]))]) = fn.text

\* C25: Loaded index is the one queried.  Once load_retriever_from_faiss(path)
\* has succeeded on an engine object, an invoke on that object takes its
\* context from the index loaded last, for both engines.
C25_InvokeSearchesLoadedIndex ==
    (eng.op = "invoke" /\ eng.loaded # NoIndex) => eng.context = eng.loaded

\* C26: A failed turn leaves the history unchanged.  After a turn of the
\* single-document engine that failed in the rewrite, retrieval or answer
\* step, the stored history of its session is the history the turn started
\* with, and every stored history consists of questions paired with answers.
C26_FailedTurnKeepsHistory ==
    /\ (Turn.engine = "single" /\ Turn.status # "ok")
           => store[Turn.session].messages = Turn.history
    /\ \A s \in Sessions : \A i \in 1..Len(store[s].messages) :
           /\ Len(store[s].messages[i]) = 2
           /\ store[s].messages[i][1] \in Questions
           /\ store[s].messages[i][2] \in AnswerOutputs

\* A turn failed in its answer step on a session that already had a turn
C26_Witness ==
    /\ Turn.engine = "single"
    /\ Turn.status = "error"
    /\ Turn.retrieved
    /\ Len(Turn.history) = 1
    /\ store[Turn.session].messages = Turn.history

\* C27: No lost history on concurrent session creation.  The lookup never
\* makes a second history object for a session id: every object made is the
\* one the store holds for its id.  Once no turn of a session is running, the
\* history the store holds for it has all its completed turns.
C27_NoLostHistory ==
    /\ Len(conc.heap) = Cardinality({ s \in Sessions : conc.cstore[s] # 0 })
    /\ \A s \in Sessions :
           (\A t \in Threads : conc.thr[t].session # s) => StoredHistory(s) = conc.done[s]

\* The directory the last combine_documents call read
CombinedDir == IF cmp.combined.session = NoSession THEN cmp.root ELSE cmp.dirs[cmp.combined.session]

\* C28: Exactly one REFERENCE and one ACTUAL.  Whatever uploads went into the
\* session directory, a combine_documents that succeeds returns a text with
\* exactly one REFERENCE DOCUMENT section and exactly one ACTUAL DOCUMENT
\* section; over fewer than two PDF files it fails and returns no text.
C28_OneReferenceOneActual ==
    LET Sections(role) == { i \in 1..Len(cmp.combined.parts) : cmp.combined.parts[i].role = role }
    IN  /\ cmp.combined.status = "ok"
               => /\ Cardinality(Sections("REFERENCE DOCUMENT")) = 1
                  /\ Cardinality(Sections("ACTUAL DOCUMENT")) = 1
        /\ (cmp.combined.status # "none"
                /\ Cardinality({ n \in CmpStems : CombinedDir[n] # NoFile }) < 2)
               => /\ cmp.combined.status = "DocumentPortalException"
                  /\ cmp.combined.parts = <<>>

\* C29: Rejected files leave no trace.  A multi-document ingestion writes into
\* the session's upload directory only files whose extension is supported.
C29_RejectedFilesNotWritten ==
    (lastCall.op = "ingest" /\ lastCall.engine = "multi")
        => \A f \in lastCall.written : f.ext \in SUPPORTED_FILE_TYPES

\* C30: Comparison upload is all-or-nothing on a type error.  A
\* save_uploaded_files of two files of which one is not a PDF fails and leaves
\* the session directory and the root as they were; after a save that
\* succeeds, both files are among the PDFs combine_documents finds in the
\* session directory.
C30_UploadAllOrNothing ==
    [][(cmp'.save.status # "none" /\ cmp'.combined.status = "none")
           => LET ref == cmp'.save.ref.name
                  act == cmp'.save.act.name
                  found == SortedPdfs(cmp'.dirs[cmp'.save.session])
              IN  /\ (~EndsWithPdf(ref) \/ ~EndsWithPdf(act))
                         => /\ cmp'.save.status = "DocumentPortalException"
                            /\ cmp'.dirs = cmp.dirs
                            /\ cmp'.root = cmp.root
                  /\ cmp'.save.status = "ok"
                         => \A n \in {ref.stem, act.stem} :
                                \E i \in 1..Len(found) : found[i] = n]_vars

====
